---- MODULE Spec2Model ----
(***************************************************************************)
(* Model of the client-side content layer of the Kali Linux features site: *)
(*   js/rss-fetcher.js   class RSSFetcher          (feed aggregator)       *)
(*   js/auto-content.js  class AutoContentManager  (head/meta updater)     *)
(*                                                                         *)
(* Text is a sequence of one-character strings.  A Date is a record        *)
(* [type, valid, ms]: type "Date" is a Date object (valid = FALSE is the   *)
(* Invalid Date), type "string" is the ISO string JSON.stringify turns a   *)
(* valid Date into, type "null" is what it turns an Invalid Date into.     *)
(***************************************************************************)
EXTENDS Integers, Sequences, FiniteSets, TLC

VARIABLES
    now,        \* Date.now(), in model time units
    slot,       \* localStorage['rss_cache']
    container,  \* innerHTML of the element matched by this.container
    present,    \* whether document.querySelector(this.container) finds an element
    passes,     \* the displayArticles invocations, in the order they started
    timer,      \* the setInterval of startAutoUpdate: [started, nextFire]
    requests,   \* number of feed HTTP requests issued so far
    head,       \* document.head: the sequence of its elements
    arg,        \* argument of the pure function under check
    ret,        \* its result
    called      \* which function produced ret

vars == <<now, slot, container, present, passes, timer, requests,
          head, arg, ret, called>>

aggVars == <<now, slot, container, present, passes, timer, requests>>
funVars == <<arg, ret, called>>

----------------------------------------------------------------------------
(* Bounds of the model *)
MaxPasses == 2
MaxTime == 4
MaxSortLen == 3

(* Program constants, scaled to model units *)
NumFeeds == 2
updateInterval == 2
maxArticles == 2
MaxTextLen == 200
MaxCategories == 3

Min(a, b) == IF a < b THEN a ELSE b

\* Array.prototype.slice(0, n) and String.prototype.substring(0, n)
SliceTo(s, n) == SubSeq(s, 1, Min(Len(s), n))

RECURSIVE Flatten(_)
Flatten(ss) == IF ss = <<>> THEN <<>> ELSE Head(ss) \o Flatten(Tail(ss))

----------------------------------------------------------------------------
(* Dates *)

ValidDate(ms) == [type |-> "Date", valid |-> TRUE, ms |-> ms]
InvalidDate == [type |-> "Date", valid |-> FALSE, ms |-> 0]

\* new Date(item.pubDate) on the proxy's pubDate string
NewDate(raw) == IF raw.parseable THEN ValidDate(raw.ms) ELSE InvalidDate

\* Date.prototype.toJSON as JSON.stringify applies it
DateToJSON(d) ==
    IF d.type = "Date"
    THEN IF d.valid THEN [type |-> "string", valid |-> TRUE, ms |-> d.ms]
                    ELSE [type |-> "null", valid |-> FALSE, ms |-> 0]
    ELSE d

\* article.pubDate.toISOString() throws a TypeError on a string or null and a
\* RangeError on the Invalid Date
ToISOStringThrows(d) == ~(d.type = "Date" /\ d.valid)

toISOString(d) == <<"iso:", ToString(d.ms)>>

----------------------------------------------------------------------------
(* Text *)

Letters == {"a", "b", "c", "U", "n", "k", "o", "w", "E", "x", "t", "e", "r",
            "l", "S", "u", "g", "m", "p", "q", "0", "3", "9", "#", ";"}
Special == {"&", "<", ">", "\"", "'"}

Unknown == <<"U", "n", "k", "n", "o", "w", "n">>
ExternalSource == <<"E", "x", "t">>

EntityOf(c) ==
    CASE c = "&" -> <<"&", "a", "m", "p", ";">>
      [] c = "<" -> <<"&", "l", "t", ";">>
      [] c = ">" -> <<"&", "g", "t", ";">>
      [] c = "\"" -> <<"&", "q", "u", "o", "t", ";">>
      [] c = "'" -> <<"&", "#", "0", "3", "9", ";">>
      [] OTHER -> <<c>>

escapeHtmlNoQuote(text) ==
    Flatten([i \in 1..Len(text) |->
        IF text[i] \in {"&", "<", ">"} THEN EntityOf(text[i]) ELSE <<text[i]>>])

\* escapeHtml: String(text).replace(/[&<>"']/g, m => map[m])
escapeHtml(text) ==
    Flatten([i \in 1..Len(text) |->
        IF text[i] \in Special THEN EntityOf(text[i]) ELSE <<text[i]>>])

IsPrefix(p, s) == Len(p) <= Len(s) /\ SubSeq(s, 1, Len(p)) = p

\* temp.innerHTML = text; temp.textContent: tags are dropped, the character
\* references of the escaped characters are decoded
RECURSIVE textContent(_)
textContent(s) ==
    IF s = <<>> THEN <<>>
    ELSE IF Head(s) = "<" /\ Len(s) > 1 /\ s[2] \in Letters \cup {"/"}
    THEN LET close == {i \in 1..Len(s) : s[i] = ">"} IN
         IF close = {} THEN <<>>
         ELSE LET j == CHOOSE i \in close : \A k \in close : i <= k IN
              textContent(SubSeq(s, j + 1, Len(s)))
    ELSE IF Head(s) = "&" /\ \E c \in Special : IsPrefix(EntityOf(c), s)
    THEN LET c == CHOOSE x \in Special : IsPrefix(EntityOf(x), s) IN
         <<c>> \o textContent(SubSeq(s, Len(EntityOf(c)) + 1, Len(s)))
    ELSE <<Head(s)>> \o textContent(Tail(s))

RECURSIVE trimStart(_)
trimStart(s) == IF s # <<>> /\ Head(s) = " " THEN trimStart(Tail(s)) ELSE s

RECURSIVE trimEnd(_)
trimEnd(s) ==
    IF s # <<>> /\ s[Len(s)] = " " THEN trimEnd(SubSeq(s, 1, Len(s) - 1)) ELSE s

trim(s) == trimEnd(trimStart(s))

\* sanitizeText
sanitizeText(text) ==
    IF text = <<>> THEN <<>>
    ELSE SliceTo(trim(textContent(text)), MaxTextLen)

----------------------------------------------------------------------------
(* Feed responses and articles *)

\* What fetchFeed resolves to: null, or the parsed JSON body.
NullResult == [status |-> "null", hasItems |-> FALSE, items |-> <<>>, feedTitle |-> <<>>]
DataResult(body) ==
    [status |-> "data", hasItems |-> body.hasItems, items |-> body.items,
     feedTitle |-> body.feedTitle]

\* parseFeedItems
parseFeedItems(feedData) ==
    IF feedData.status # "data" \/ ~feedData.hasItems THEN <<>>
    ELSE [i \in 1..Len(feedData.items) |->
            LET item == feedData.items[i] IN
            [title |-> sanitizeText(item.title),
             link |-> item.link,
             description |-> sanitizeText(item.description),
             pubDate |-> NewDate(item.pubDate),
             author |-> IF item.author = <<>> THEN Unknown ELSE item.author,
             thumbnail |-> IF item.thumbnail # <<>> THEN item.thumbnail
                           ELSE item.enclosure,
             categories |-> item.categories,
             source |-> IF feedData.feedTitle = <<>> THEN ExternalSource
                        ELSE feedData.feedTitle]]

----------------------------------------------------------------------------
(* Rendering.  The HTML string is a sequence of pieces; each piece records  *)
(* whether its text is literal template text, an interpolated article field *)
(* or a formatted date.                                                     *)

Tpl(name) == <<[origin |-> "template", text |-> <<name>>]>>
Field(text) == <<[origin |-> "field", text |-> text]>>
DatePiece(text) == <<[origin |-> "date", text |-> text]>>

\* formatDate: date.toLocaleDateString('en-US', ...)
formatDate(date) == <<"fmt:", ToString(date.ms)>>

\* the template literal of generateArticleHTML for one article
ArticleHTML(article) ==
    (IF article.thumbnail # <<>>
     THEN Tpl("<article><img src=") \o Field(escapeHtml(article.thumbnail))
          \o Tpl(" alt=") \o Field(escapeHtml(article.title)) \o Tpl("><a href=")
     ELSE Tpl("<article><a href="))
    \o Field(escapeHtml(article.link)) \o Tpl(">")
    \o Field(escapeHtml(article.title)) \o Tpl("</a><time datetime=")
    \o DatePiece(toISOString(article.pubDate)) \o Tpl(">")
    \o DatePiece(formatDate(article.pubDate)) \o Tpl("</time><span itemprop=name>")
    \o Field(escapeHtml(article.source))
    \o (IF article.author # Unknown
        THEN Tpl("</span><span itemprop=name>") \o Field(escapeHtml(article.author))
             \o Tpl("</span><p>")
        ELSE Tpl("</span><p>"))
    \o Field(escapeHtml(article.description))
    \o (IF Len(article.categories) > 0
        THEN Tpl("</p><div class=article-categories>")
             \o Flatten([k \in 1..Len(SliceTo(article.categories, MaxCategories)) |->
                    Tpl("<span class=category-tag>")
                    \o Field(escapeHtml(article.categories[k])) \o Tpl("</span>")])
             \o Tpl("</div><a href=")
        ELSE Tpl("</p><a href="))
    \o Field(escapeHtml(article.link)) \o Tpl(">Read More</a></article>")

\* generateArticleHTML: the joined templates of the first maxArticles articles,
\* or the exception thrown by the first pubDate.toISOString() that fails
generateArticleHTML(articles) ==
    LET shown == SliceTo(articles, maxArticles) IN
    IF \E i \in 1..Len(shown) : ToISOStringThrows(shown[i].pubDate)
    THEN [threw |-> TRUE, html |-> <<>>]
    ELSE [threw |-> FALSE,
          html |-> Flatten([i \in 1..Len(shown) |-> ArticleHTML(shown[i])])]

----------------------------------------------------------------------------
(* Sorting *)

\* (a, b) => b.pubDate - a.pubDate; the subtraction is NaN when either date is
\* the Invalid Date, and Array.prototype.sort reads a NaN result as +0
compare(a, b) ==
    IF a.pubDate.valid /\ b.pubDate.valid THEN b.pubDate.ms - a.pubDate.ms ELSE 0

\* insertion sort as the engines run it on a short array: x goes behind every
\* element the comparator does not put after it
RECURSIVE InsertStable(_, _)
InsertStable(sorted, x) ==
    IF sorted = <<>> THEN <<x>>
    ELSE IF compare(sorted[Len(sorted)], x) > 0
    THEN InsertStable(SubSeq(sorted, 1, Len(sorted) - 1), x) \o <<sorted[Len(sorted)]>>
    ELSE sorted \o <<x>>

RECURSIVE StableSort(_)
StableSort(arr) ==
    IF arr = <<>> THEN <<>>
    ELSE InsertStable(StableSort(SubSeq(arr, 1, Len(arr) - 1)), arr[Len(arr)])

\* binary insertion sort: the place of x among sorted[left+1 .. right] is
\* found by halving
RECURSIVE BinaryPlace(_, _, _, _)
BinaryPlace(sorted, x, left, right) ==
    IF left >= right THEN left
    ELSE LET mid == (left + right) \div 2 IN
         IF compare(x, sorted[mid + 1]) < 0
         THEN BinaryPlace(sorted, x, left, mid)
         ELSE BinaryPlace(sorted, x, mid + 1, right)

RECURSIVE BinaryInsertionSort(_)
BinaryInsertionSort(arr) ==
    IF arr = <<>> THEN <<>>
    ELSE LET sorted == BinaryInsertionSort(SubSeq(arr, 1, Len(arr) - 1))
             x == arr[Len(arr)]
             at == BinaryPlace(sorted, x, 0, Len(sorted))
         IN SubSeq(sorted, 1, at) \o <<x>> \o SubSeq(sorted, at + 1, Len(sorted))

\* sortArticlesByDate: the results Array.prototype.sort gives.  The engines
\* sort a short array by insertion, searching the place linearly or by
\* halving; the two agree whenever the comparator is consistent, and an
\* Invalid Date (which compares equal to every date) makes it inconsistent.
sortArticlesByDate(articles) ==
    {StableSort(articles), BinaryInsertionSort(articles)}

----------------------------------------------------------------------------
(* The cache slot: the text stored under 'rss_cache' *)

AbsentSlot == [text |-> "absent", articles |-> <<>>, timestamp |-> 0]
GarbageSlot == [text |-> "garbage", articles |-> <<>>, timestamp |-> 0]
JsonNullSlot == [text |-> "null", articles |-> <<>>, timestamp |-> 0]

\* JSON.stringify of one article: a Date becomes its toJSON() value
ArticleToJSON(article) == [article EXCEPT !.pubDate = DateToJSON(@)]

\* JSON.stringify({articles, timestamp})
JSONstringify(articles, timestamp) ==
    [text |-> "object",
     articles |-> [i \in 1..Len(articles) |-> ArticleToJSON(articles[i])],
     timestamp |-> timestamp]

\* cacheArticles: the slot after the call; setItem may throw (quota), which
\* is caught and leaves the slot as it was
cacheArticles(old, articles, t, stored) ==
    IF stored THEN JSONstringify(articles, t) ELSE old

\* getCachedArticles with the age test written <= instead of <
getCachedArticlesInclusive(s, t) ==
    IF s.text # "object" THEN [isNull |-> TRUE, articles |-> <<>>]
    ELSE IF t - s.timestamp <= updateInterval
         THEN [isNull |-> FALSE, articles |-> s.articles]
         ELSE [isNull |-> TRUE, articles |-> <<>>]

\* getCachedArticles: null, or the articles of the stored record
getCachedArticles(s, t) ==
    IF s.text = "absent" THEN [isNull |-> TRUE, articles |-> <<>>]
    ELSE IF s.text \in {"garbage", "null"} THEN [isNull |-> TRUE, articles |-> <<>>]
    ELSE IF t - s.timestamp < updateInterval
         THEN [isNull |-> FALSE, articles |-> s.articles]
         ELSE [isNull |-> TRUE, articles |-> <<>>]

----------------------------------------------------------------------------
(* The feeds and what the proxy may answer *)

Feeds == 1..NumFeeds

Item(title, ms, parseable) ==
    [title |-> title, link |-> <<"u">>, description |-> <<"<", "b", ">", "d", " ">>,
     pubDate |-> [parseable |-> parseable, ms |-> ms],
     author |-> <<>>, thumbnail |-> <<>>, enclosure |-> <<>>, categories |-> <<>>]

\* a body without an items member (the proxy's error object)
BodyNoItems == [hasItems |-> FALSE, items |-> <<>>, feedTitle |-> <<>>]
\* two dated items, the older one first
BodyTwo ==
    [hasItems |-> TRUE, feedTitle |-> <<"k">>,
     items |-> <<Item(<<"a">>, 1, TRUE), Item(<<"b">>, 2, TRUE)>>]
\* one item whose pubDate string new Date() cannot parse (or that has none)
BodyUndated ==
    [hasItems |-> TRUE, feedTitle |-> <<>>, items |-> <<Item(<<"x">>, 0, FALSE)>>]

Bodies == {BodyNoItems, BodyTwo, BodyUndated}

\* the ways one fetchFeed ends in its catch block
Failures == {"network error", "status 500", "malformed body"}

\* how a request is answered
Answer(kind, body) == [kind |-> kind, body |-> body]
Answers == {Answer(why, BodyNoItems) : why \in Failures} \cup {Answer("ok", body) : body \in Bodies}

\* fetchFeed, given how its request went: the parsed body, or null from the
\* catch block
fetchFeed(answer) ==
    IF answer.kind = "ok" THEN DataResult(answer.body) ELSE NullResult

\* results.filter(result => result !== null), in feed order
RECURSIVE FilterNotNull(_, _)
FilterNotNull(results, f) ==
    IF f > NumFeeds THEN <<>>
    ELSE (IF results[f].status = "null" THEN <<>> ELSE <<results[f]>>)
         \o FilterNotNull(results, f + 1)

\* what a fetchFeed promise may resolve to, and what it resolves to when the
\* request succeeded
Results == {fetchFeed(a) : a \in Answers}
OkResults == {fetchFeed(a) : a \in {b \in Answers : b.kind = "ok"}}

\* fetchAllFeeds, given what each fetchFeed promise resolved to: the results,
\* awaited together, without the nulls
fetchAllFeeds(results) == FilterNotNull(results, 1)

\* feeds.forEach(feed => allArticles = allArticles.concat(parseFeedItems(feed)))
AllArticles(feeds) == Flatten([i \in 1..Len(feeds) |-> parseFeedItems(feeds[i])])

----------------------------------------------------------------------------
(* The container *)

Untouched == [kind |-> "untouched", html |-> <<>>]
Loading == [kind |-> "loading", html |-> <<>>]
ErrorPlaceholder == [kind |-> "error", html |-> <<>>]
Rendered(html) == [kind |-> "articles", html |-> html]

----------------------------------------------------------------------------
(* displayArticles.  A pass runs without interruption up to its one await   *)
(* (fetchAllFeeds) and, once the last feed promise has settled, from there  *)
(* to its end.                                                              *)

\* a pass: who started it, where it is (pc), the branch it took (path) and
\* how it ended (outcome)
Pass(origin, pc, path, outcome) ==
    [origin |-> origin, pc |-> pc, path |-> path, outcome |-> outcome]

\* lines 180-199: from the call to the await, on the slot s the call finds
DisplayStart(origin, s) ==
    IF ~present
    THEN /\ passes' = Append(passes, Pass(origin, "returned", "no container", "none"))
         /\ UNCHANGED <<container, requests>>
    ELSE LET cachedArticles == getCachedArticles(s, now) IN
         IF ~cachedArticles.isNull
         THEN \E r \in {generateArticleHTML(cachedArticles.articles)} :
              /\ container' = (IF r.threw THEN Loading ELSE Rendered(r.html))
              /\ passes' = Append(passes,
                    Pass(origin, IF r.threw THEN "thrown" ELSE "returned", "hit",
                         IF r.threw THEN "threw" ELSE "rendered"))
              /\ UNCHANGED requests
         ELSE /\ container' = Loading
              /\ passes' = Append(passes, Pass(origin, "fetching", "fetch", "none"))
              /\ requests' = requests + NumFeeds

\* lines 199-217: from the await to the end, with the fetchFeed results
DisplayFinish(p, results) ==
    LET feeds == fetchAllFeeds(results) IN
    IF Len(feeds) = 0
    THEN /\ container' = ErrorPlaceholder
         /\ passes' = [passes EXCEPT ![p] = [@ EXCEPT !.pc = "returned", !.outcome = "error"]]
         /\ UNCHANGED slot
    ELSE \E sortedArticles \in sortArticlesByDate(AllArticles(feeds)) :
         \E r \in {generateArticleHTML(sortedArticles)} :
         \E stored \in BOOLEAN :
            /\ slot' = cacheArticles(slot, sortedArticles, now, stored)
            /\ container' = (IF r.threw THEN container ELSE Rendered(r.html))
            /\ passes' = [passes EXCEPT ![p] =
                  [@ EXCEPT !.pc = IF r.threw THEN "thrown" ELSE "returned",
                            !.outcome = IF r.threw THEN "threw" ELSE "rendered"]]

\* every fetchFeed promise of pass p has settled, Promise.all resolves and
\* the pass runs to its end.  Until then a settled fetchFeed changes nothing
\* another pass can see.
Resume(p, results) ==
    /\ p \in 1..Len(passes)
    /\ passes[p].pc = "fetching"
    /\ DisplayFinish(p, results)
    /\ UNCHANGED <<now, present, timer, requests, head, funVars>>

----------------------------------------------------------------------------
(* Actions of the aggregator *)

\* a caller invokes displayArticles()
DisplayArticles ==
    /\ Len(passes) < MaxPasses
    /\ DisplayStart("manual", slot)
    /\ UNCHANGED <<now, slot, present, timer, head, funVars>>

\* startAutoUpdate(): the immediate pass and setInterval
StartAutoUpdate ==
    /\ ~timer.started
    /\ Len(passes) < MaxPasses
    /\ DisplayStart("initial", slot)
    /\ timer' = [started |-> TRUE, nextFire |-> now + updateInterval]
    /\ UNCHANGED <<now, slot, present, head, funVars>>

\* the interval callback without its removeItem
TimerTickKeepsCache ==
    /\ timer.started
    /\ now >= timer.nextFire
    /\ Len(passes) < MaxPasses
    /\ DisplayStart("timer", slot)
    /\ timer' = [timer EXCEPT !.nextFire = @ + updateInterval]
    /\ UNCHANGED <<now, slot, present, head, funVars>>

\* the interval callback: removeItem('rss_cache'), then displayArticles()
TimerTick ==
    /\ timer.started
    /\ now >= timer.nextFire
    /\ Len(passes) < MaxPasses
    /\ slot' = AbsentSlot
    /\ DisplayStart("timer", AbsentSlot)
    /\ timer' = [timer EXCEPT !.nextFire = @ + updateInterval]
    /\ UNCHANGED <<now, present, head, funVars>>

\* the feeds answer a pass: each request fails (fetchFeed's catch block) or
\* brings a body
FeedsAnswer ==
    \E p \in 1..MaxPasses, results \in [Feeds -> Results] : Resume(p, results)

\* time passes
Advance ==
    /\ now < MaxTime
    /\ now' = now + 1
    /\ UNCHANGED <<slot, container, present, passes, timer, requests, head, funVars>>

\* what an earlier page load may have left in the slot
StoredBefore ==
    {AbsentSlot, GarbageSlot, JsonNullSlot}
    \cup {JSONstringify(arts, t) :
            arts \in {<<>>, StableSort(parseFeedItems(DataResult(BodyTwo)))},
            t \in {0, updateInterval - 1}}

Init ==
    /\ now = updateInterval
    /\ slot \in StoredBefore
    /\ container = Untouched
    /\ present \in BOOLEAN
    /\ passes = <<>>
    /\ timer = [started |-> FALSE, nextFire |-> 0]
    /\ requests = 0
    /\ head = <<>>
    /\ arg = <<>>
    /\ ret = <<>>
    /\ called = "none"

Next ==
    \/ DisplayArticles
    \/ StartAutoUpdate
    \/ TimerTick
    \/ FeedsAnswer
    \/ Advance

Spec == Init /\ [][Next]_vars

----------------------------------------------------------------------------
(* Claims about the aggregator *)

PassIds == 1..Len(passes)
Auto == {"initial", "timer"}
\* a step that starts a pass, and the pass it starts
Starts == Len(passes') = Len(passes) + 1
Started == passes'[Len(passes')]

\* C1: no call of displayArticles ends in a thrown exception (a rejected
\* promise), whatever the container, the cache slot and the feeds' answers
C1_NeverThrows == \A p \in PassIds : passes[p].pc # "thrown"

\* C3: a pass gets the stored articles from getCachedArticles only when
\* now - timestamp < updateInterval; on an empty slot or a record of age
\* >= updateInterval it gets null, does not show the stored articles and takes
\* the fetch path
C3_CacheExpiry ==
    [][(Starts /\ present) =>
        LET s == IF Started.origin = "timer" THEN AbsentSlot ELSE slot IN
        /\ Started.path = "hit" =>
              /\ s.text = "object"
              /\ now - s.timestamp < updateInterval
              /\ container' \in {Loading, Rendered(generateArticleHTML(s.articles).html)}
        /\ (s.text = "absent" \/ (s.text = "object" /\ now - s.timestamp >= updateInterval)) =>
              /\ Started.path = "fetch"
              /\ Started.pc = "fetching"
              /\ container' = Loading
              /\ requests' = requests + NumFeeds]_vars

\* a first pass is fetching although the slot holds a record, because the
\* record is exactly updateInterval old
C3_Witness ==
    /\ Len(passes) = 1
    /\ passes[1].pc = "fetching"
    /\ slot.text = "object"
    /\ slot.articles # <<>>
    /\ now - slot.timestamp = updateInterval

\* C4: fetchAllFeeds returns one response per feed whose fetch succeeded and
\* none for the others; a pass on the fetch path ends in the error placeholder
\* exactly if every feed failed, and with the articles of the successful feeds
\* rendered otherwise
C4_PartialFailureTolerated ==
    [][\A p \in PassIds, results \in [Feeds -> Results] :
          Resume(p, results) =>
              LET ok == {f \in Feeds : results[f] \in OkResults}
                  feeds == fetchAllFeeds(results)
              IN
              /\ Len(feeds) = Cardinality(ok)
              /\ \A g \in ok : \E i \in 1..Len(feeds) : feeds[i] = results[g]
              /\ passes'[p].outcome = "error" <=> ok = {}
              /\ container' = ErrorPlaceholder <=> ok = {}
              /\ ok # {} =>
                    /\ passes'[p].outcome = "rendered"
                    /\ \E sortedArticles \in sortArticlesByDate(AllArticles(feeds)) :
                          container' = Rendered(generateArticleHTML(sortedArticles).html)]_vars

\* C5: a pass that hits the cache renders the cached articles and returns; it
\* issues no feed request and leaves the slot as it is; requests are issued
\* only by a pass that missed the cache
C5_HitRendersWithoutFetch ==
    [][/\ (Starts /\ Started.path = "hit") =>
            /\ Started.pc = "returned"
            /\ container' = Rendered(generateArticleHTML(slot.articles).html)
            /\ requests' = requests
            /\ slot' = slot
       /\ requests' # requests => (Starts /\ Started.path = "fetch")]_vars

\* C6 as stated: every pass the timer starts misses the cache and takes the
\* fetch path
C6_TimerPassFetches ==
    \A p \in PassIds : passes[p].origin = "timer" => passes[p].path = "fetch"

\* C6 as amended: startAutoUpdate starts one pass at once, and every pass the
\* timer starts while the container element exists misses the cache and takes
\* the fetch path, whatever the slot held
C6_TimerPassFetchesIfContainer ==
    /\ timer.started <=> Cardinality({p \in PassIds : passes[p].origin = "initial"}) = 1
    /\ \A p \in PassIds :
          (passes[p].origin = "timer" /\ present) => passes[p].path = "fetch"

\* the timer has started a pass after an earlier pass filled the cache
C6_Witness ==
    /\ present
    /\ Len(passes) = 2
    /\ passes[1].origin = "initial" /\ passes[1].outcome = "rendered"
    /\ passes[2].origin = "timer" /\ passes[2].pc = "fetching"

\* C7: two passes started by startAutoUpdate are never in progress at once
C7_NoOverlap ==
    Cardinality({p \in PassIds :
        passes[p].origin \in Auto /\ passes[p].pc = "fetching"}) <= 1

\* a pass that is no longer awaiting its feeds has ended
Ended(p) == passes[p].pc # "fetching"

\* C11: with the container present, every pass that has ended has put article
\* HTML or the error placeholder in place of the loading placeholder, on the
\* cache-hit path as on the fetch path, and once no pass is awaiting its feeds
\* the container does not show the loading placeholder
C11_LoadingTransient ==
    present =>
        /\ \A p \in PassIds :
              Ended(p) => passes[p].outcome \in {"rendered", "error"}
        /\ (\A p \in PassIds : Ended(p)) => container # Loading

----------------------------------------------------------------------------
(* The pure functions, each applied once to an argument drawn from a        *)
(* bounded set                                                              *)

IdleAggregator ==
    /\ now = 0
    /\ slot = AbsentSlot
    /\ container = Untouched
    /\ present = TRUE
    /\ passes = <<>>
    /\ timer = [started |-> FALSE, nextFire |-> 0]
    /\ requests = 0

RECURSIVE SeqsUpTo(_, _)
SeqsUpTo(S, n) ==
    IF n = 0 THEN {<<>>}
    ELSE LET shorter == SeqsUpTo(S, n - 1) IN
         shorter \cup {Append(q, x) : q \in {r \in shorter : Len(r) = n - 1}, x \in S}

\* feed items of two titles, two dates and no date
SomeItems ==
    {Item(<<t>>, ms, TRUE) : t \in {"a", "b"}, ms \in {1, 2}}
    \cup {Item(<<t>>, 0, FALSE) : t \in {"a", "b"}}

\* the article sequences parseFeedItems makes of up to MaxSortLen of them
ParsedArticles ==
    {parseFeedItems(DataResult([hasItems |-> TRUE, items |-> its, feedTitle |-> <<>>])) :
        its \in SeqsUpTo(SomeItems, MaxSortLen)}

(* sortArticlesByDate *)

InitSort ==
    /\ IdleAggregator
    /\ head = <<>>
    /\ arg \in ParsedArticles
    /\ ret = <<>>
    /\ called = "none"

SortArticlesByDate ==
    /\ called = "none"
    /\ ret' \in sortArticlesByDate(arg)
    /\ called' = "sortArticlesByDate"
    /\ UNCHANGED <<aggVars, head, arg>>

NextSort == SortArticlesByDate

SpecSort == InitSort /\ [][NextSort]_vars

(* cacheArticles, then getCachedArticles *)

InitCache ==
    /\ IdleAggregator
    /\ head = <<>>
    /\ arg \in ParsedArticles
    /\ ret = <<>>
    /\ called = "none"

CacheArticles ==
    /\ called = "none"
    /\ \E stored \in BOOLEAN : slot' = cacheArticles(slot, arg, now, stored)
    /\ called' = "cacheArticles"
    /\ UNCHANGED <<now, container, present, passes, timer, requests, head, arg, ret>>

Elapse ==
    /\ called = "cacheArticles"
    /\ now < MaxTime
    /\ now' = now + 1
    /\ UNCHANGED <<slot, container, present, passes, timer, requests, head, funVars>>

GetCachedArticles ==
    /\ called = "cacheArticles"
    /\ ret' = getCachedArticles(slot, now)
    /\ called' = "getCachedArticles"
    /\ UNCHANGED <<aggVars, head, arg>>

NextCache == CacheArticles \/ Elapse \/ GetCachedArticles

SpecCache == InitCache /\ [][NextCache]_vars

(* generateArticleHTML *)

Chars == {"a"} \cup Special

\* texts of up to two characters, plain or to be escaped
Texts == {<<>>} \cup {<<c>> : c \in Chars} \cup {<<c, d>> : c \in Chars, d \in {"a", "&", "<"}}

PlainArticle ==
    [title |-> <<"a">>, link |-> <<"a">>, description |-> <<"a">>,
     pubDate |-> ValidDate(1), author |-> Unknown, thumbnail |-> <<>>,
     categories |-> <<>>, source |-> <<"a">>]

\* articles that carry one text in one of their fields
TextArticles ==
    UNION {{[PlainArticle EXCEPT !.title = t],
            [PlainArticle EXCEPT !.link = t],
            [PlainArticle EXCEPT !.description = t],
            [PlainArticle EXCEPT !.author = t],
            [PlainArticle EXCEPT !.thumbnail = t],
            [PlainArticle EXCEPT !.source = t],
            [PlainArticle EXCEPT !.categories = <<t>>],
            [PlainArticle EXCEPT !.categories = <<<<"a">>, <<"a">>, t, t>>]} : t \in Texts}

HtmlArguments ==
    {<<>>}
    \cup {<<a>> : a \in TextArticles}
    \cup {<<PlainArticle, a, a>> : a \in TextArticles}
    \cup {<<ArticleToJSON(a)>> : a \in TextArticles}

InitHtml ==
    /\ IdleAggregator
    /\ head = <<>>
    /\ arg \in HtmlArguments
    /\ ret = <<>>
    /\ called = "none"

GenerateArticleHTML ==
    /\ called = "none"
    /\ ret' = generateArticleHTML(arg)
    /\ called' = "generateArticleHTML"
    /\ UNCHANGED <<aggVars, head, arg>>

NextHtml == GenerateArticleHTML

SpecHtml == InitHtml /\ [][NextHtml]_vars

----------------------------------------------------------------------------
(* Claims about the pure functions *)

\* C2: getCachedArticles, called before updateInterval has passed since
\* cacheArticles(articles) stored its record, returns a sequence equal to
\* articles in every field, pubDate included, in value and in kind
C2_CacheRoundTrip ==
    (/\ called = "getCachedArticles"
     /\ slot.text = "object"
     /\ now - slot.timestamp < updateInterval) =>
        (~ret.isNull /\ ret.articles = arg)

IsReordering(out, in) ==
    /\ Len(out) = Len(in)
    /\ \E p \in Permutations(1..Len(in)) : \A i \in 1..Len(in) : out[i] = in[p[i]]

\* the positions of the articles of date d in s
ArticlesOfDate(s, d) ==
    LET keep == {i \in 1..Len(s) : s[i].pubDate = d} IN
    LET RECURSIVE pick(_)
        pick(i) == IF i > Len(s) THEN <<>>
                   ELSE (IF i \in keep THEN <<s[i]>> ELSE <<>>) \o pick(i + 1)
    IN pick(1)

\* C8: the result of sortArticlesByDate is a reordering of its argument in
\* which no article comes before one of a later date, and the articles of
\* one date are in the order the argument has them
C8_SortedStable ==
    called = "sortArticlesByDate" =>
        /\ IsReordering(ret, arg)
        /\ \A i, j \in 1..Len(ret) :
              (i < j /\ ret[i].pubDate.valid /\ ret[j].pubDate.valid) =>
                  ret[i].pubDate.ms >= ret[j].pubDate.ms
        /\ \A i \in 1..Len(arg) :
              ArticlesOfDate(ret, arg[i].pubDate) = ArticlesOfDate(arg, arg[i].pubDate)

\* a text holds none of < > " ' and holds & only as the start of one of the
\* five entities
Escaped(text) ==
    \A i \in 1..Len(text) :
        /\ text[i] \notin (Special \ {"&"})
        /\ text[i] = "&" =>
              \E c \in Special : IsPrefix(EntityOf(c), SubSeq(text, i, Len(text)))

\* C10: every piece of the output of generateArticleHTML that comes from an
\* article field is escaped, and so is every date piece
C10_FieldsEscaped ==
    called = "generateArticleHTML" =>
        \A k \in 1..Len(ret.html) :
            ret.html[k].origin # "template" => Escaped(ret.html[k].text)

\* an article whose category holds a quote and an ampersand has been rendered
C10_Witness ==
    /\ called = "generateArticleHTML"
    /\ ~ret.threw
    /\ \E k \in 1..Len(ret.html) :
          /\ ret.html[k].origin = "field"
          /\ ret.html[k].text = EntityOf("'") \o EntityOf("&")

----------------------------------------------------------------------------
(* AutoContentManager: the operations on document.head.  An element is      *)
(* [tag, attr, key, content]: a meta with one attribute (property or name)  *)
(* of value key, the canonical link, or the JSON-LD script.                 *)

Element(tag, attr, key, content) ==
    [tag |-> tag, attr |-> attr, key |-> key, content |-> content]

\* document.querySelector: the index of the first element matching
\* tag[attr="key"], or 0
querySelector(h, tag, attr, key) ==
    LET hits == {i \in 1..Len(h) : h[i].tag = tag /\ h[i].attr = attr /\ h[i].key = key} IN
    IF hits = {} THEN 0 ELSE CHOOSE i \in hits : \A j \in hits : i <= j

\* createElement, setAttribute(attr, key), appendChild however the query
\* ended, then setAttribute of the content
AlwaysCreate(h, tag, attr, key, content) ==
    Append(h, Element(tag, attr, key, content))

\* the find-or-create pattern of the three operations
FindOrCreate(h, tag, attr, key, content) ==
    LET found == querySelector(h, tag, attr, key) IN
    IF found = 0
    THEN Append(h, Element(tag, attr, key, content))
    ELSE [h EXCEPT ![found].content = content]

\* updateMetaTag(property, content, attributeType)
updateMetaTag(h, property, content, attributeType) ==
    IF content = <<>> THEN h
    ELSE FindOrCreate(h, "meta", attributeType, property, content)

\* setCanonicalURL(url)
setCanonicalURL(h, url) == FindOrCreate(h, "link", "rel", "canonical", url)

\* JSON.stringify(structuredData): one ListItem per article, its position
\* index + 1, then the article's fields
StructuredData(articles) ==
    <<"ItemList">>
    \o Flatten([i \in 1..Len(articles) |->
          <<"ListItem", ToString(i)>> \o articles[i].title \o <<",">>
          \o articles[i].description \o <<",">> \o articles[i].link \o <<",">>
          \o <<DateToJSON(articles[i].pubDate).type, ToString(articles[i].pubDate.ms), ",">>
          \o articles[i].author \o <<",">> \o articles[i].thumbnail])

\* addStructuredData(articles)
addStructuredData(h, articles) ==
    FindOrCreate(h, "script", "type", "application/ld+json", StructuredData(articles))

MetaProperties == {"og:title"}
AttributeTypes == {"property", "name"}
Contents == {<<>>, <<"a">>, <<"b">>}
ArticleLists == {<<>>, <<PlainArticle>>, <<PlainArticle, [PlainArticle EXCEPT !.title = <<"b">>]>>}

\* heads a page may come with: at most one element of a key
GivenHeads ==
    {<<>>,
     <<Element("meta", "name", "description", <<"a">>)>>,
     <<Element("meta", "property", "og:title", <<"b">>),
       Element("link", "rel", "canonical", <<"b">>)>>,
     <<Element("script", "type", "application/ld+json", <<"b">>),
       Element("meta", "name", "og:title", <<"b">>)>>}

InitHead ==
    /\ IdleAggregator
    /\ head \in GivenHeads
    /\ arg = <<>>
    /\ ret = <<>>
    /\ called = "none"

\* called names the last operation
UpdateMetaTag ==
    \E property \in MetaProperties, content \in Contents, attributeType \in AttributeTypes :
        /\ head' = updateMetaTag(head, property, content, attributeType)
        /\ called' = IF content = <<>> THEN "updateMetaTag falsy" ELSE "updateMetaTag"
        /\ UNCHANGED <<aggVars, arg, ret>>

SetCanonicalURL ==
    \E url \in Contents \ {<<>>} :
        /\ head' = setCanonicalURL(head, url)
        /\ called' = "setCanonicalURL"
        /\ UNCHANGED <<aggVars, arg, ret>>

AddStructuredData ==
    \E articles \in ArticleLists :
        /\ head' = addStructuredData(head, articles)
        /\ called' = "addStructuredData"
        /\ UNCHANGED <<aggVars, arg, ret>>

NextHead == UpdateMetaTag \/ SetCanonicalURL \/ AddStructuredData

SpecHead == InitHead /\ [][NextHead]_vars

----------------------------------------------------------------------------
(* Claims about the head operations *)

OnePerKey(h) ==
    \A i, j \in 1..Len(h) :
        (h[i].tag = h[j].tag /\ h[i].attr = h[j].attr /\ h[i].key = h[j].key) => i = j

\* doing op a second time on h changes nothing
Idempotent(h) ==
    /\ \A property \in MetaProperties, content \in Contents, attributeType \in AttributeTypes :
          LET once == updateMetaTag(h, property, content, attributeType) IN
          updateMetaTag(once, property, content, attributeType) = once
    /\ \A url \in Contents :
          LET once == setCanonicalURL(h, url) IN setCanonicalURL(once, url) = once
    /\ \A articles \in ArticleLists :
          LET once == addStructuredData(h, articles) IN
          addStructuredData(once, articles) = once

\* C9: from a head with at most one element per key, every call of the three
\* operations leaves at most one element per key; doing any of them a second
\* time with the same arguments changes nothing; updateMetaTag with falsy
\* content changes nothing
C9_FindOrCreateIdempotent ==
    [][/\ OnePerKey(head')
       /\ Idempotent(head')
       /\ called' = "updateMetaTag falsy" => head' = head]_vars

\* the three operations have each created their element, next to the
\* elements the page came with
C9_Witness ==
    /\ called = "updateMetaTag"
    /\ Len(head) = 5
    /\ \E i, j, k \in 1..Len(head) :
          /\ head[i].tag = "meta" /\ head[i].key = "og:title" /\ head[i].content = <<"b">>
          /\ head[j].tag = "link" /\ head[j].content = <<"a">>
          /\ head[k].tag = "script" /\ head[k].content = StructuredData(<<PlainArticle>>)

====
